---- MODULE Spec2Model ----
(***************************************************************************)
(* Model of sage/categories/pathtableaux.py: the ElementMethods of the     *)
(* category PathTableaux.  An element is a finite list of shapes; the      *)
(* abstract method _rule maps a list of three shapes to a shape.  Every    *)
(* method is a function of the receiver and the rule, so each one is an    *)
(* operator here and an action applies it to the current element.          *)
(*                                                                         *)
(* Python lists are 0-based; the operators At and Slice translate the      *)
(* indices, so that the index arithmetic of the source is kept verbatim.   *)
(* A raised exception is the record Raise(kind); a value v returned is     *)
(* Return(v).                                                              *)
(***************************************************************************)
EXTENDS Integers, Sequences, FiniteSets, TLC

\* Longest element the model starts from.
MaxLen == 5

\* The shapes the rule ranges over.  Two shapes keep the set of all rules
\* (256 of them, 16 involutive) small enough to enumerate completely.
Shapes == {0, 1}

\* The placeholder of the cylindrical diagram (Python's None).
None == 9

VARIABLES
    rule,     \* the element class's _rule on lists of length three
    self,     \* the element the caller holds
    origin,   \* size, initial and final shape of the element it started with
    op,       \* the method called on self, "none" between calls
    args,     \* the arguments of the call
    status,   \* "ok" or the kind of exception the call raised
    result    \* what the call returned

vars == <<rule, self, origin, op, args, status, result>>

----------------------------------------------------------------------------
\* Python values

Return(v) == [st |-> "ok", v |-> v]

Raise(kind) == [st |-> kind, v |-> <<>>]

Min(a, b) == IF a < b THEN a ELSE b

\* s[i] for 0 <= i < len(s)
At(s, i) == s[i + 1]

\* s[a:b] for a >= 0: the slice is clipped to the list
Slice(s, a, b) == SubSeq(s, a + 1, Min(b, Len(s)))

\* s[a:]
SliceFrom(s, a) == SubSeq(s, a + 1, Len(s))

\* list.reverse()
Reverse(s) == [k \in 1..Len(s) |-> s[Len(s) + 1 - k]]

\* [x] * k
Repeat(x, k) == [m \in 1..k |-> x]

----------------------------------------------------------------------------
\* The abstract rule

Triples == Shapes \X Shapes \X Shapes

Rules == [Triples -> Shapes]

\* "apply the rule to a list and replace the middle term with the output"
\* is an involution on lists of length three
Involutive(r) == \A p \in Triples : r[<<p[1], r[p], p[3]>>] = p[2]

\* self._rule(p).  The contract of _rule covers lists of length three only;
\* what an implementation does with a shorter list is not fixed by this
\* file, so it is the caller-supplied outcome short: to raise, or to return
\* some shape.
_rule(p, short) ==
    IF Len(p) = 3 THEN Return(rule[p]) ELSE short

ShortOutcome(raises, x) == IF raises THEN Raise("RuleError") ELSE Return(x)

----------------------------------------------------------------------------
\* Book keeping

size(s) == Len(s)

initial_shape(s) == At(s, 0)

final_shape(s) == At(s, Len(s) - 1)

----------------------------------------------------------------------------
\* Jeu de taquin

\* The outcome handed to _rule where the source only ever passes it a list
\* of length three.
Unused == Raise("RuleError")

\* A local_rule that writes the rule's value one place to the left.
local_rule_left(s, i, short) ==
    IF ~(i > 0 /\ i < Len(s))
    THEN Raise("ValueError")
    ELSE LET r == _rule(Slice(s, i - 1, i + 2), short)
         IN  IF r.st # "ok" THEN r
             ELSE Return([s EXCEPT ![i] = r.v])

\* local_rule(self, i): the guard admits every 0 < i < len(self); at
\* i = len(self) - 1 the slice self[i-1:i+2] has two terms only.
local_rule(s, i, short) ==
    IF ~(i > 0 /\ i < Len(s))
    THEN Raise("ValueError")
    ELSE LET r == _rule(Slice(s, i - 1, i + 2), short)
         IN  IF r.st # "ok" THEN r
             ELSE Return([s EXCEPT ![i + 1] = r.v])

\* the loop of promotion from index i on: result[i] is computed from the
\* working copy, which holds the new values at the smaller indices
RECURSIVE promotion_loop(_, _)
promotion_loop(res, i) ==
    IF i >= Len(res) - 1 THEN res
    ELSE promotion_loop(
             [res EXCEPT ![i + 1] = _rule(Slice(res, i - 1, i + 2), Unused).v],
             i + 1)

\* A promotion that reads the neighbours from the receiver instead of the
\* working copy.
RECURSIVE promotion_stale_loop(_, _, _)
promotion_stale_loop(s, res, i) ==
    IF i >= Len(res) - 1 THEN res
    ELSE promotion_stale_loop(s,
             [res EXCEPT ![i + 1] = _rule(Slice(s, i - 1, i + 2), Unused).v],
             i + 1)

promotion_stale(s) == promotion_stale_loop(s, s, 1)

promotion(s) == promotion_loop(s, 1)

\* the loop of evacuation with k rounds left: promote L, pop its last term
\* onto result
RECURSIVE evacuation_loop(_, _, _)
evacuation_loop(L, res, k) ==
    IF k = 0 THEN res
    ELSE LET T == promotion(L)
         IN  evacuation_loop(SubSeq(T, 1, Len(T) - 1),
                             Append(res, T[Len(T)]), k - 1)

\* An evacuation that forgets result.reverse().
evacuation_unreversed(s) ==
    IF size(s) < 3 THEN s
    ELSE evacuation_loop(s, <<>>, Len(s))

evacuation(s) ==
    IF size(s) < 3 THEN s
    ELSE Reverse(evacuation_loop(s, <<>>, Len(s)))

\* cactus(self, i, j).  The branch i == j is behind the guard i < j.
RECURSIVE cactus(_, _, _)
cactus(s, i, j) ==
    IF ~(0 < i /\ i < j /\ j < size(s)) THEN Raise("ValueError")
    ELSE IF i = j THEN Return(s)
    ELSE IF i = 1
         THEN LET h == Slice(s, 0, j - 1)
                  t == SliceFrom(s, j - 1)
              IN  Return(evacuation(h) \o t)
    ELSE LET a == cactus(s, 1, j)
         IN  IF a.st # "ok" THEN a
             ELSE LET b == cactus(a.v, 1, j - i)
                  IN  IF b.st # "ok" THEN b
                      ELSE cactus(b.v, 1, j)

----------------------------------------------------------------------------
\* Visualisation and checking

\* the loop of cylindrical_diagram from row i on
RECURSIVE cylindrical_loop(_, _, _)
cylindrical_loop(res, T, i) ==
    IF i >= Len(res) THEN res
    ELSE cylindrical_loop([res EXCEPT ![i + 1] = Repeat(None, i) \o T],
                          promotion(T), i + 1)

\* A cylindrical diagram whose rows all share one backing list, so that every
\* row shows what was written last.
cylindrical_diagram_aliased(s) ==
    LET n == Len(s)
        d == cylindrical_loop(Repeat(Repeat(None, 2 * n - 1), n), s, 0)
    IN  [i \in 1..n |-> d[n]]

cylindrical_diagram(s) ==
    LET n == Len(s)
    IN  cylindrical_loop(Repeat(Repeat(None, 2 * n - 1), n), s, 0)

\* the loop of check_involution_rule from i on
RECURSIVE check_involution_rule_loop(_, _)
check_involution_rule_loop(s, i) ==
    IF i >= size(s) - 2 THEN Return(TRUE)
    ELSE LET a == local_rule(s, i + 1, Unused)
         IN  IF a.st # "ok" THEN a
             ELSE LET b == local_rule(a.v, i + 1, Unused)
                  IN  IF b.st # "ok" THEN b
                      ELSE IF b.v # s THEN Return(FALSE)
                      ELSE check_involution_rule_loop(s, i + 1)

check_involution_rule(s) == check_involution_rule_loop(s, 0)

\* self.cactus(i, j).cactus(k, l)
cactus_twice(s, i, j, k, l) ==
    LET a == cactus(s, i, j)
    IN  IF a.st # "ok" THEN a ELSE cactus(a.v, k, l)

\* the list comprehension of check_involution_cactus from i on: every term
\* is computed before all() looks at any
RECURSIVE check_involution_cactus_loop(_, _, _)
check_involution_cactus_loop(s, i, acc) ==
    IF i >= size(s) THEN Return(acc)
    ELSE LET b == cactus_twice(s, 1, i, 1, i)
         IN  IF b.st # "ok" THEN b
             ELSE check_involution_cactus_loop(s, i + 1, acc /\ (b.v = s))

check_involution_cactus(s) == check_involution_cactus_loop(s, 2, TRUE)

check_promotion(s) ==
    LET n   == size(s)
        lhs == promotion(s)
        rhs == cactus_twice(s, 1, n, 2, n)
    IN  IF rhs.st # "ok" THEN rhs ELSE Return(lhs = rhs.v)

\* itertools.combinations(range(n), 4), in the order it yields them
LexLess(c, d) ==
    \E k \in 1..4 : c[k] < d[k] /\ \A m \in 1..(k - 1) : c[m] = d[m]

RECURSIVE InOrder(_)
InOrder(S) ==
    IF S = {} THEN <<>>
    ELSE LET c == CHOOSE x \in S : \A y \in S \ {x} : LexLess(x, y)
         IN  <<c>> \o InOrder(S \ {c})

combinations4(n) ==
    InOrder({c \in (0..(n - 1)) \X (0..(n - 1)) \X (0..(n - 1)) \X (0..(n - 1)) :
                c[1] < c[2] /\ c[2] < c[3] /\ c[3] < c[4]})

\* the loop of check_commutation over the combinations left
RECURSIVE check_commutation_loop(_, _)
check_commutation_loop(s, cs) ==
    IF cs = <<>> THEN Return(TRUE)
    ELSE LET i == cs[1][1]
             j == cs[1][2]
             r == cs[1][3]
             q == cs[1][4]
             lhs == cactus_twice(s, i, j, r, q)
             rhs == cactus_twice(s, r, q, i, j)
         IN  IF lhs.st # "ok" THEN lhs
             ELSE IF rhs.st # "ok" THEN rhs
             ELSE IF lhs.v # rhs.v THEN Return(FALSE)
             ELSE check_commutation_loop(s, Tail(cs))

check_commutation(s) == check_commutation_loop(s, combinations4(size(s)))

\* the loop of check_coboundary over the combinations left
RECURSIVE check_coboundary_loop(_, _)
check_coboundary_loop(s, cs) ==
    IF cs = <<>> THEN Return(TRUE)
    ELSE LET i == cs[1][1]
             j == cs[1][2]
             r == cs[1][3]
             q == cs[1][4]
             lhs == cactus_twice(s, i, q, j, r)
             rhs == cactus_twice(s, i + q - r, i + q - j, i, q)
         IN  IF lhs.st # "ok" THEN lhs
             ELSE IF rhs.st # "ok" THEN rhs
             ELSE IF lhs.v # rhs.v THEN Return(FALSE)
             ELSE check_coboundary_loop(s, Tail(cs))

check_coboundary(s) == check_coboundary_loop(s, combinations4(size(s)))

\* check_consistent builds the diagram and then reads n in range(1,n); the
\* method binds no n and the module has no global of that name, so the
\* name lookup raises and the loop body is never entered.
check_consistent(s) ==
    LET d == cylindrical_diagram(s)
    IN  Raise("NameError")

\* orbit: the first sweep calls a.cactus(1,i+1) for every a in rec = {self}
\* and every i in range(size), and an exception of cactus ends the call.  A
\* sweep that completes goes on to orbit.join(new), where orbit is no name
\* of the method or the module, so no call gets past the first sweep.
orbit(s) ==
    LET n      == size(s)
        rec    == {s}
        raised == {e \in {cactus(a, 1, i + 1) : a \in rec, i \in 0..(n - 1)} :
                      e.st # "ok"}
    IN  IF raised # {} THEN CHOOSE e \in raised : TRUE
        ELSE Raise("NameError")

---------------------------------------------------------------------------------------------------------------------------------------------------
\* The state machine.  The methods are pure: a call leaves self alone and
\* returns a new value.  A caller holds one element, calls a method on it,
\* and then either goes on with the element the call returned (Adopt) or
\* lets the result go (Drop).  It goes on only with elements it got by calls
\* inside the methods' documented domain: what local_rule returns at the
\* last index, where _rule was handed two shapes, is looked at and let go.

Elements == UNION {[1..n -> Shapes] : n \in 1..MaxLen}

\* the indices the caller passes: below, inside and past every element
IndexArgs == (0 - 1)..MaxLen

\* the pairs the caller passes to cactus
PairArgs == (0..MaxLen) \X (0..MaxLen)

SequenceMethods == {"local_rule", "promotion", "evacuation", "cactus"}

CheckMethods == {"check_involution_rule", "check_involution_cactus",
                 "check_promotion", "check_commutation", "check_coboundary",
                 "check_consistent"}

InitWith(rs) ==
    /\ rule \in rs
    /\ self \in Elements
    /\ origin = [size |-> size(self), initial |-> initial_shape(self),
                 final |-> final_shape(self)]
    /\ op = "none"
    /\ args = <<>>
    /\ status = "ok"
    /\ result = <<>>

\* the element class implements _rule as its contract asks
Init == InitWith({r \in Rules : Involutive(r)})

\* the element class implements _rule by any function at all
InitAny == InitWith(Rules)

\* the bookkeeping common to every call: r is what the method did
Call(name, a, r) ==
    /\ op = "none"
    /\ op' = name
    /\ args' = a
    /\ status' = r.st
    /\ result' = r.v
    /\ UNCHANGED <<rule, self, origin>>

LocalRule ==
    \E i \in IndexArgs, raises \in BOOLEAN, x \in Shapes :
        Call("local_rule", <<i>>, local_rule(self, i, ShortOutcome(raises, x)))

Promotion == Call("promotion", <<>>, Return(promotion(self)))

Evacuation == Call("evacuation", <<>>, Return(evacuation(self)))

Cactus ==
    \E p \in PairArgs :
        Call("cactus", p, cactus(self, p[1], p[2]))

CylindricalDiagram ==
    Call("cylindrical_diagram", <<>>, Return(cylindrical_diagram(self)))

CheckInvolutionRule ==
    Call("check_involution_rule", <<>>, check_involution_rule(self))

CheckInvolutionCactus ==
    Call("check_involution_cactus", <<>>, check_involution_cactus(self))

CheckPromotion == Call("check_promotion", <<>>, check_promotion(self))

CheckCommutation == Call("check_commutation", <<>>, check_commutation(self))

CheckCoboundary == Call("check_coboundary", <<>>, check_coboundary(self))

CheckConsistent == Call("check_consistent", <<>>, check_consistent(self))

Orbit == Call("orbit", <<>>, orbit(self))

\* the call is one of those the caller goes on from
InDomain ==
    /\ op \in SequenceMethods
    /\ status = "ok"
    /\ op = "local_rule" => args[1] < size(self) - 1

\* the call returned an element and the caller goes on with it
Adopt ==
    /\ InDomain
    /\ self' = result
    /\ op' = "none"
    /\ args' = <<>>
    /\ status' = "ok"
    /\ result' = <<>>
    /\ UNCHANGED <<rule, origin>>

\* the caller lets the result or the exception go
Drop ==
    /\ op # "none"
    /\ op' = "none"
    /\ args' = <<>>
    /\ status' = "ok"
    /\ result' = <<>>
    /\ UNCHANGED <<rule, self, origin>>

Next ==
    \/ LocalRule
    \/ Promotion
    \/ Evacuation
    \/ Cactus
    \/ CylindricalDiagram
    \/ CheckInvolutionRule
    \/ CheckInvolutionCactus
    \/ CheckPromotion
    \/ CheckCommutation
    \/ CheckCoboundary
    \/ CheckConsistent
    \/ Orbit
    \/ Adopt
    \/ Drop

Spec == Init /\ [][Next]_vars

SpecAny == InitAny /\ [][Next]_vars

----------------------------------------------------------------------------
\* Properties.  In a state with op # "none" the call op(args) on self has
\* returned: status and result are its outcome and self is its receiver.

\* applyAt(...applyAt(applyAt(s, 1), 2)..., n-2), from index i on
RECURSIVE apply_in_turn(_, _)
apply_in_turn(s, i) ==
    IF i > size(s) - 2 THEN s
    ELSE apply_in_turn(local_rule(s, i, Unused).v, i + 1)

\* promotion applied k times
RECURSIVE promotion_power(_, _)
promotion_power(s, k) ==
    IF k = 0 THEN s ELSE promotion_power(promotion(s), k - 1)

\* the closure of S under the generators cactus(1, j), 1 < j <= n
RECURSIVE generated(_, _)
generated(S, n) ==
    LET T == S \cup {cactus(a, 1, j).v : a \in S, j \in 2..n}
    IN  IF T = S THEN S ELSE generated(T, n)

\* C1: under an involutive rule, evacuation never fails; on an element of
\* size >= 3 evacuating the evacuated element gives the element back, and on
\* an element of size < 3 evacuation returns the element itself.
C1_EvacuationInvolution ==
    op = "evacuation" =>
        /\ status = "ok"
        /\ size(self) >= 3 => evacuation(result) = self
        /\ size(self) < 3 => result = self

\* C1 happens: an evacuation of an element of size >= 3 that changed it.
C1_Witness ==
    /\ op = "evacuation"
    /\ size(self) >= 3
    /\ result # self
    /\ evacuation(result) = self

\* C2 as claimed: under an involutive rule, for every 0 < i < j <= size(s)
\* cactus(s, i, j) returns an element and applying cactus(i, j) to it gives
\* s back.
C2_CactusInvolution ==
    (/\ op = "cactus"
     /\ 0 < args[1]
     /\ args[1] < args[2]
     /\ args[2] <= size(self)) =>
        /\ status = "ok"
        /\ cactus(result, args[1], args[2]) = Return(self)

\* C3 as claimed: under an involutive rule, for n = size(s) >= 2,
\* check_promotion(s) returns true and promotion(s) is cactus(2, n) followed
\* by cactus(1, n).
C3_PromotionCactus ==
    (op = "check_promotion" /\ size(self) >= 2) =>
        /\ status = "ok"
        /\ result = TRUE
        /\ cactus_twice(self, 2, size(self), 1, size(self))
               = Return(promotion(self))

\* C4 as claimed: local_rule(s, i) returns an element exactly for
\* 0 < i < size(s) - 1, and for every other i it raises its own range
\* error, which it does before it applies the rule.
C4_LocalRuleInteriorOnly ==
    op = "local_rule" =>
        IF 0 < args[1] /\ args[1] < size(self) - 1
        THEN status = "ok"
        ELSE status = "ValueError"

\* C5 as claimed: under an involutive rule, check_consistent returns true on
\* every element of size 4.
C5_CheckConsistent ==
    (op = "check_consistent" /\ size(self) = 4) =>
        /\ status = "ok"
        /\ result = TRUE

\* C6 as claimed: under any rule, each of the six checks ends with a plain
\* boolean and never with a raised error.
C6_ChecksReturnBoolean ==
    op \in CheckMethods =>
        /\ status = "ok"
        /\ result \in BOOLEAN

\* C7 as claimed: under an involutive rule, orbit(s) returns the closure of
\* {s} under cactus(1, j), 1 < j <= size(s): it contains s, it contains
\* cactus(a, 1, j) for each member a and each such j, and nothing else.
C7_OrbitIsClosure ==
    op = "orbit" =>
        /\ status = "ok"
        /\ self \in result
        /\ \A a \in result : \A j \in 2..size(self) :
               /\ cactus(a, 1, j).st = "ok"
               /\ cactus(a, 1, j).v \in result
        /\ result = generated({self}, size(self))

\* C8: under any rule, promotion never fails; on an element of size n >= 2
\* it equals the local rule applied at 1, 2, ..., n-2 in turn, each step on
\* the outcome of the one before; size, first and last shape are kept; and
\* for n < 3 the element is returned as it was.
C8_PromotionIsSweep ==
    op = "promotion" =>
        /\ status = "ok"
        /\ size(self) >= 2 => result = apply_in_turn(self, 1)
        /\ size(result) = size(self)
        /\ initial_shape(result) = initial_shape(self)
        /\ final_shape(result) = final_shape(self)
        /\ size(self) < 3 => result = self

\* C8 happens: a promotion whose second step saw the value written by the
\* first, so that it differs from the result of independent applications.
C8_Witness ==
    /\ op = "promotion"
    /\ size(self) >= 4
    /\ result # self
    /\ result # promotion_stale(self)

\* C9: under any rule, cylindrical_diagram of an element of size n has n
\* rows, and row i, 0 <= i < n, is i placeholders followed by the element
\* promoted i times; row 0 is the element.
C9_CylindricalRows ==
    op = "cylindrical_diagram" =>
        /\ status = "ok"
        /\ Len(result) = size(self)
        /\ \A i \in 0..(size(self) - 1) :
               At(result, i) = Repeat(None, i) \o promotion_power(self, i)
        /\ At(result, 0) = self

\* C9 happens: a diagram of at least three rows that are not all the same
\* element shifted.
C9_Witness ==
    /\ op = "cylindrical_diagram"
    /\ size(self) >= 3
    /\ promotion(self) # self
    /\ At(result, 2) = <<None, None>> \o promotion(promotion(self))

\* C10: under any rule, through any run of calls of local_rule at an
\* interior index, promotion, evacuation and cactus that return, each made on
\* the element the one before returned, the element the caller holds, and
\* the element such a call on it returns, has the size, the initial shape and
\* the final shape of the element the run started with.
C10_ShapeOfElementKept ==
    LET kept(s) == /\ size(s) = origin.size
                   /\ initial_shape(s) = origin.initial
                   /\ final_shape(s) = origin.final
    IN  /\ kept(self)
        /\ InDomain => kept(result)

\* C10 happens: a cactus call that returned an element other than its
\* receiver.
C10_Witness ==
    /\ op = "cactus"
    /\ status = "ok"
    /\ result # self

====
